---- MODULE Spec2Model ----
(***************************************************************************)
(* getString / getString.init of bootstrap.js (Restartless string helper). *)
(*                                                                         *)
(* A JavaScript string is a sequence of one-character strings.  A string   *)
(* bundle is a record holding the locale it was created for and the        *)
(* key -> template function read from that locale's properties file; the   *)
(* null bundle (getBundle returning null, or a property never assigned)    *)
(* is NoBundle.                                                            *)
(***************************************************************************)
EXTENDS Integers, Sequences, FiniteSets

VARIABLES files, bundle, fallback, plural, last

vars == <<files, bundle, fallback, plural, last>>

---------------------------------------------------------------------------
(* Bounds of the model.                                                    *)

\* largest number used as a quantity or as a numeric argument
MaxQuantity == 5
\* longest args array
MaxArgs == 2
\* most pieces a generated template is concatenated from
MaxPieces == 3

---------------------------------------------------------------------------
(* JavaScript values and ToString.                                         *)

StrVal(s) == [t |-> "str", n |-> 0, s |-> s]
NumVal(n) == [t |-> "num", n |-> n, s |-> << >>]
UndefVal == [t |-> "undef", n |-> 0, s |-> << >>]

DigitChars == <<"0", "1", "2", "3", "4", "5", "6", "7", "8", "9">>

RECURSIVE NumToString(_)
NumToString(n) ==
    IF n < 10 THEN <<DigitChars[n + 1]>>
    ELSE NumToString(n \div 10) \o <<DigitChars[(n % 10) + 1]>>

\* ToString of a replacement value handed to String.prototype.replace
ToString(v) ==
    CASE v.t = "str" -> v.s
      [] v.t = "num" -> NumToString(v.n)
      [] OTHER -> <<"u", "n", "d", "e", "f", "i", "n", "e", "d">>

---------------------------------------------------------------------------
(* String.prototype.replace(RegExp(pattern, "gi"), replacement) for a      *)
(* pattern that is a literal character sequence.                           *)

\* variant: the "i" flag left out of the regular expressions
LowerCaseSensitive(c) == c

\* case folding of the "i" flag
Lower(c) == IF c = "S" THEN "s" ELSE c

MatchAt(str, i, pat) ==
    /\ i + Len(pat) - 1 <= Len(str)
    /\ \A j \in 1..Len(pat) : Lower(str[i + j - 1]) = Lower(pat[j])

\* The grave accent (U+0060) opens a quotation in the module's own syntax
\* and cannot stand in a string of it: the character is written by name.
Backtick == "grave"
Apostrophe == "'"

\* expansion of the $-patterns of a replacement string for the match of
\* length mlen at position pos of str (the pattern has no capture groups)
RECURSIVE GetSubstitution(_, _, _, _, _)
GetSubstitution(repl, j, str, pos, mlen) ==
    IF j > Len(repl) THEN << >>
    ELSE IF repl[j] = "$" /\ j < Len(repl) /\ repl[j + 1] = "$"
    THEN <<"$">> \o GetSubstitution(repl, j + 2, str, pos, mlen)
    ELSE IF repl[j] = "$" /\ j < Len(repl) /\ repl[j + 1] = "&"
    THEN SubSeq(str, pos, pos + mlen - 1)
             \o GetSubstitution(repl, j + 2, str, pos, mlen)
    ELSE IF repl[j] = "$" /\ j < Len(repl) /\ repl[j + 1] = Backtick
    THEN SubSeq(str, 1, pos - 1)
             \o GetSubstitution(repl, j + 2, str, pos, mlen)
    ELSE IF repl[j] = "$" /\ j < Len(repl) /\ repl[j + 1] = Apostrophe
    THEN SubSeq(str, pos + mlen, Len(str))
             \o GetSubstitution(repl, j + 2, str, pos, mlen)
    ELSE <<repl[j]>> \o GetSubstitution(repl, j + 1, str, pos, mlen)

\* variant: the "g" flag left out, only the first match is replaced
RECURSIVE ReplaceFirstFrom(_, _, _, _)
ReplaceFirstFrom(str, i, pat, repl) ==
    IF i > Len(str) THEN << >>
    ELSE IF MatchAt(str, i, pat)
    THEN GetSubstitution(repl, 1, str, i, Len(pat))
             \o SubSeq(str, i + Len(pat), Len(str))
    ELSE <<str[i]>> \o ReplaceFirstFrom(str, i + 1, pat, repl)

RECURSIVE ReplaceFrom(_, _, _, _)
ReplaceFrom(str, i, pat, repl) ==
    IF i > Len(str) THEN << >>
    ELSE IF MatchAt(str, i, pat)
    THEN GetSubstitution(repl, 1, str, i, Len(pat))
             \o ReplaceFrom(str, i + Len(pat), pat, repl)
    ELSE <<str[i]>> \o ReplaceFrom(str, i + 1, pat, repl)

Replace(str, pat, value) == ReplaceFrom(str, 1, pat, ToString(value))

---------------------------------------------------------------------------
(* The substitution passes of getString.                                   *)

\* args[0]; undefined for an empty array
FirstArg(args) == IF Len(args) > 0 THEN args[1] ELSE UndefVal

\* str.replace(/%s/gi, args[0])
ReplaceBare(str, args) == Replace(str, <<"%", "s">>, FirstArg(args))

\* RegExp("%" + (index + 1) + "\\$S", "gi") for the 1-based position n
PositionalPattern(n) == <<"%">> \o NumToString(n) \o <<"$", "S">>

\* Array.forEach(args, ...) from element n on
RECURSIVE ReplacePositionalFrom(_, _, _)
ReplacePositionalFrom(str, args, n) ==
    IF n > Len(args) THEN str
    ELSE ReplacePositionalFrom(
             Replace(str, PositionalPattern(n), args[n]), args, n + 1)

ReplacePositional(str, args) == ReplacePositionalFrom(str, args, 1)

\* the args parameter: null, a scalar (a string or a number), or an array
NullArgs == [kind |-> "null", one |-> UndefVal, many |-> << >>]
ScalarArgs(v) == [kind |-> "scalar", one |-> v, many |-> << >>]
ArrayArgs(a) == [kind |-> "array", one |-> UndefVal, many |-> a]

\* a string or something not array-like becomes a one-element array
ToArray(args) == IF args.kind = "scalar" THEN <<args.one>> ELSE args.many

FillArgs(str, args) ==
    IF args.kind = "null" THEN str
    ELSE ReplacePositional(ReplaceBare(str, ToArray(args)), ToArray(args))

---------------------------------------------------------------------------
(* PluralForm.makeGetter(rule) of the platform module PluralForm.jsm that  *)
(* getString.init imports (line 143), and the getter it returns.  The      *)
(* module is part of the application the add-on runs in, not of the        *)
(* add-on: the definitions of this section follow the module.              *)

\* gFunctions[rule][1]: the form index of n under each rule of the registry
PluralFunc(rule, n) ==
    CASE rule = 1 -> IF n # 1 THEN 1 ELSE 0
      [] rule = 2 -> IF n > 1 THEN 1 ELSE 0
      [] rule = 3 -> IF n % 10 = 1 /\ n % 100 # 11 THEN 1
                     ELSE IF n # 0 THEN 2 ELSE 0
      [] rule = 4 -> IF n = 1 \/ n = 11 THEN 0
                     ELSE IF n = 2 \/ n = 12 THEN 1
                     ELSE IF n > 0 /\ n < 20 THEN 2 ELSE 3
      [] rule = 5 -> IF n = 1 THEN 0
                     ELSE IF n = 0 \/ (n % 100 > 0 /\ n % 100 < 20) THEN 1
                     ELSE 2
      [] rule = 6 -> IF n % 10 = 1 /\ n % 100 # 11 THEN 0
                     ELSE IF n % 10 >= 2 /\ (n % 100 < 10 \/ n % 100 >= 20)
                     THEN 2 ELSE 1
      [] rule = 7 -> IF n % 10 = 1 /\ n % 100 # 11 THEN 0
                     ELSE IF n % 10 >= 2 /\ n % 10 <= 4
                             /\ (n % 100 < 10 \/ n % 100 >= 20)
                     THEN 1 ELSE 2
      [] rule = 8 -> IF n = 1 THEN 0 ELSE IF n >= 2 /\ n <= 4 THEN 1 ELSE 2
      [] rule = 9 -> IF n = 1 THEN 0
                     ELSE IF n % 10 >= 2 /\ n % 10 <= 4
                             /\ (n % 100 < 10 \/ n % 100 >= 20)
                     THEN 1 ELSE 2
      [] rule = 10 -> IF n % 100 = 1 THEN 0
                      ELSE IF n % 100 = 2 THEN 1
                      ELSE IF n % 100 = 3 \/ n % 100 = 4 THEN 2 ELSE 3
      [] rule = 11 -> IF n = 1 THEN 0
                      ELSE IF n = 2 THEN 1
                      ELSE IF n >= 3 /\ n <= 6 THEN 2
                      ELSE IF n >= 7 /\ n <= 10 THEN 3 ELSE 4
      [] rule = 12 -> IF n = 0 THEN 5
                      ELSE IF n = 1 THEN 0
                      ELSE IF n = 2 THEN 1
                      ELSE IF n % 100 >= 3 /\ n % 100 <= 10 THEN 2
                      ELSE IF n % 100 >= 11 /\ n % 100 <= 99 THEN 3 ELSE 4
      [] rule = 13 -> IF n = 1 THEN 0
                      ELSE IF n = 0 \/ (n % 100 > 0 /\ n % 100 <= 10) THEN 1
                      ELSE IF n % 100 > 10 /\ n % 100 < 20 THEN 2 ELSE 3
      [] rule = 14 -> IF n % 10 = 1 THEN 0 ELSE IF n % 10 = 2 THEN 1 ELSE 2
      [] rule = 15 -> IF n % 10 = 1 /\ n % 100 # 11 THEN 0 ELSE 1
      [] OTHER -> 0

\* gFunctions.length: rules 0 to 15
RuleCount == 16

(* Number(str) for the string read under "pluralRule", as far as           *)
(* makeGetter's test of it goes: whether the string is a numeric literal    *)
(* and whether the double nearest to its value lies in [0, RuleCount).     *)

\* StrWhiteSpaceChar: the characters without an escape in a string literal
\* are written by code point
WhiteSpace ==
    {"\t", "\n", "U+000B", "\f", "\r", " ", "U+00A0", "U+1680",
     "U+2000", "U+2001", "U+2002", "U+2003", "U+2004", "U+2005", "U+2006",
     "U+2007", "U+2008", "U+2009", "U+200A", "U+2028", "U+2029", "U+202F",
     "U+205F", "U+3000", "U+FEFF"}
Digits == {DigitChars[i] : i \in 1..10}
HexDigits == Digits \cup {"a", "b", "c", "d", "e", "f",
                          "A", "B", "C", "D", "E", "F"}
OctalDigits == {DigitChars[i] : i \in 1..8}
BinaryDigits == {"0", "1"}

\* s without its leading and trailing white space
Trim(s) ==
    LET inner == {i \in 1..Len(s) : s[i] \notin WhiteSpace}
    IN  IF inner = {} THEN << >>
        ELSE SubSeq(s, CHOOSE i \in inner : \A j \in inner : i <= j,
                       CHOOSE i \in inner : \A j \in inner : i >= j)

AllIn(s, set) == \A i \in 1..Len(s) : s[i] \in set

\* the first position of s holding a character of set, 0 when none does
IndexOf(s, set) ==
    IF \E i \in 1..Len(s) : s[i] \in set
    THEN CHOOSE i \in 1..Len(s) :
             s[i] \in set /\ \A j \in 1..(i - 1) : s[j] \notin set
    ELSE 0

\* s without its leading zeros
StripZeros(s) ==
    LET first == IndexOf(s, {s[i] : i \in 1..Len(s)} \ {"0"})
    IN  IF first = 0 THEN << >> ELSE SubSeq(s, first, Len(s))

RECURSIVE DecValue(_)
DecValue(s) ==
    IF s = << >> THEN 0
    ELSE 10 * DecValue(SubSeq(s, 1, Len(s) - 1))
           + (CHOOSE d \in 0..9 : DigitChars[d + 1] = s[Len(s)])

Signed(s) == s # << >> /\ s[1] \in {"+", "-"}
Unsigned(s) == IF Signed(s) THEN Tail(s) ELSE s

\* [mantissa, exponent] of an unsigned decimal literal
Mantissa(s) ==
    IF IndexOf(s, {"e", "E"}) = 0 THEN s
    ELSE SubSeq(s, 1, IndexOf(s, {"e", "E"}) - 1)
Exponent(s) ==
    IF IndexOf(s, {"e", "E"}) = 0 THEN << >>
    ELSE SubSeq(s, IndexOf(s, {"e", "E"}) + 1, Len(s))

IntPart(m) ==
    IF IndexOf(m, {"."}) = 0 THEN m ELSE SubSeq(m, 1, IndexOf(m, {"."}) - 1)
FracPart(m) ==
    IF IndexOf(m, {"."}) = 0 THEN << >>
    ELSE SubSeq(m, IndexOf(m, {"."}) + 1, Len(m))

IsDecimal(s) ==
    /\ AllIn(IntPart(Mantissa(s)), Digits)
    /\ AllIn(FracPart(Mantissa(s)), Digits)
    /\ Len(IntPart(Mantissa(s))) + Len(FracPart(Mantissa(s))) > 0
    /\ IndexOf(s, {"e", "E"}) # 0
         => /\ Unsigned(Exponent(s)) # << >>
            /\ AllIn(Unsigned(Exponent(s)), Digits)

\* 0x, 0o and 0b literals: a prefix in either case and digits of the radix
IsRadix(s, letters, digits) ==
    /\ Len(s) > 2 /\ s[1] = "0" /\ s[2] \in letters
    /\ AllIn(SubSeq(s, 3, Len(s)), digits)

IsHex(s) == IsRadix(s, {"x", "X"}, HexDigits)
IsOctal(s) == IsRadix(s, {"o", "O"}, OctalDigits)
IsBinary(s) == IsRadix(s, {"b", "B"}, BinaryDigits)

\* value < RuleCount for a literal of radix 16, 8 or 2
RadixInRange(s) ==
    LET digits == StripZeros(SubSeq(s, 3, Len(s)))
    IN  IF IsHex(s) THEN Len(digits) <= 1
        ELSE IF IsOctal(s)
        THEN Len(digits) <= 1 \/ (Len(digits) = 2 /\ digits[1] = "1")
        ELSE Len(digits) <= 4

InfinityChars == <<"I", "n", "f", "i", "n", "i", "t", "y">>

\* the exponent as an integer; beyond six digits its size no longer matters
ExponentValue(e) ==
    LET digits == StripZeros(Unsigned(e))
        size == IF Len(digits) > 6 THEN 1000000 ELSE DecValue(digits)
    IN  IF e # << >> /\ e[1] = "-" THEN 0 - size ELSE size

\* The two decimals that decide how a literal rounds to a double, each
\* written as its digits in groups of eight.
\* 16 - 2^-50 = 15.99999999999999911182158029987476766109466552734375:
\* the doubles next to 16 from below are 2^-49 apart, and a value half-way
\* between the last of them and 16 rounds to 16 (ties to even)
BelowCountGroups ==
    <<15999999, 99999999, 91118215, 80299874, 76766109, 46655273,
      43750000>>

\* 2^-1075 = 5^1075 * 10^-1075, the 752 digits of 5^1075 after 323 zeros:
\* half the least double 2^-1074, which rounds to zero (ties to even)
HalfLeastGroups ==
    <<24703282, 29206232, 72088284, 39643411, 6861825, 29901307, 16238221,
      27928412, 50337753, 63510437, 59326499, 18180817, 99618989, 82823477,
      22858865, 46332835, 51779698, 98199387, 39800539, 9390631, 50356595,
      15570226, 39229085, 83924491, 5184435, 93180284, 99365361, 52500319,
      37045767, 82492193, 65623669, 86365848, 7570015, 85769269, 90370631,
      19282795, 58551332, 92783433, 84093519, 78015531, 24659726, 35795746,
      22766465, 27282722, 563740, 6485499, 97709659, 94704540, 20828166,
      22623785, 73934507, 36339007, 96776193, 5775067, 40176324, 67360096,
      89513405, 35537458, 51666113, 42237666, 78604162, 15968046, 19144672,
      91840300, 53005753, 8490487, 65391711, 38659164, 62395249, 12623653,
      88187963, 62393732, 80423891, 1867234, 84976682, 35089863, 38858792,
      56283027, 55995657, 52445550, 72551893, 13690836, 25477918, 69486679,
      94968324, 4970582, 10285131, 85451396, 21383772, 28261454, 37693412,
      53209859, 13276672, 36328125>>

\* the digits of a number written in groups of eight
GroupDigits(groups) ==
    [p \in 1..(8 * Len(groups)) |->
        (groups[((p - 1) \div 8) + 1] \div 10^(7 - ((p - 1) % 8))) % 10]

DigitsOf(s) == [i \in 1..Len(s) |-> DecValue(<<s[i]>>)]

\* a < b for the decimals 0.a and 0.b
DigitsLess(a, b) ==
    LET at(d, i) == IF i <= Len(d) THEN d[i] ELSE 0
    IN  \E i \in 1..(IF Len(a) > Len(b) THEN Len(a) ELSE Len(b)) :
            at(a, i) < at(b, i) /\ \A j \in 1..(i - 1) : at(a, j) = at(b, j)

\* 0 <= Number(s) < RuleCount for the unsigned decimal literal s, or for
\* its negative: -0 is not below 0
DecimalInRange(s, negative) ==
    LET fraction == FracPart(Mantissa(s))
        digits == StripZeros(IntPart(Mantissa(s)) \o fraction)
        \* the value is digits * 10^(-places), in [10^(whole-1), 10^whole)
        places == Len(fraction) - ExponentValue(Exponent(s))
        whole == Len(digits) - places
    IN  IF digits = << >> THEN TRUE
        ELSE IF negative
        THEN \* -0 when the value is at most 2^-1075, in [10^-324, 10^-323)
             IF whole < -323 THEN TRUE
             ELSE IF whole > -323 THEN FALSE
             ELSE ~DigitsLess(GroupDigits(HalfLeastGroups), DigitsOf(digits))
        ELSE \* below 16 when the value is below 16 - 2^-50, in [10, 100)
             IF whole < 2 THEN TRUE
             ELSE IF whole > 2 THEN FALSE
             ELSE DigitsLess(DigitsOf(digits), GroupDigits(BelowCountGroups))

\* not (aRuleNum < 0 || aRuleNum >= gFunctions.length || isNaN(aRuleNum))
RuleInRange(str) ==
    LET s == Trim(str)
    IN  IF s = << >> THEN TRUE
        ELSE IF IsHex(s) \/ IsOctal(s) \/ IsBinary(s) THEN RadixInRange(s)
        ELSE IF Unsigned(s) = InfinityChars THEN FALSE
        ELSE IsDecimal(Unsigned(s))
               /\ DecimalInRange(Unsigned(s), s[1] = "-")

\* the string is the name of an element of gFunctions
IsRuleIndex(str) == \E r \in 0..(RuleCount - 1) : NumToString(r) = str

\* makeGetter(rule) for the string read under "pluralRule": the rule number
\* of the getter it returns.  A value out of range or not a number defaults
\* to rule 0; one that passes the range test as a number but names no
\* element of gFunctions makes it throw (undefined is destructured).
MakeGetter(str) ==
    IF IsRuleIndex(str)
    THEN [ok |-> TRUE,
          rule |-> CHOOSE r \in 0..(RuleCount - 1) : NumToString(r) = str]
    ELSE [ok |-> ~RuleInRange(str), rule |-> 0]

\* aWords.split(/;/)
RECURSIVE SplitFrom(_, _, _)
SplitFrom(str, i, word) ==
    IF i > Len(str) THEN <<word>>
    ELSE IF str[i] = ";" THEN <<word>> \o SplitFrom(str, i + 1, << >>)
    ELSE SplitFrom(str, i + 1, Append(word, str[i]))

Words(str) == IF str = << >> THEN << << >> >> ELSE SplitFrom(str, 1, << >>)

\* the getter, get(aNum, aWords): the form at the rule's index, or the
\* first form when the index is out of bounds or the form there is empty
PluralGet(rule, n, str) ==
    LET index == PluralFunc(rule, n)
        words == Words(str)
    IN  IF index < Len(words) /\ words[index + 1] # << >>
        THEN words[index + 1]
        ELSE words[1]

---------------------------------------------------------------------------
(* Properties files and string bundles.                                    *)

Locales == {"en-US", "de", "fr"}

Names == {"pluralRule", "money", "hereHave", "confirm", "hopeEnough"}

Entry(t) == [has |-> TRUE, tpl |-> t]
NoEntry == [has |-> FALSE, tpl |-> << >>]

EmptyStrings == [k \in Names |-> NoEntry]

NoFile == [exists |-> FALSE, strings |-> EmptyStrings]
File(strings) == [exists |-> TRUE, strings |-> strings]

NoBundle == [loaded |-> FALSE, locale |-> "", strings |-> EmptyStrings]

\* getBundle(locale) over the add-on's locales/<locale>.properties
getBundle(fs, locale) ==
    IF fs[locale].exists
    THEN [loaded |-> TRUE, locale |-> locale, strings |-> fs[locale].strings]
    ELSE NoBundle

---------------------------------------------------------------------------
(* getString(name, args, plural).                                          *)

Return(s) == [ok |-> TRUE, str |-> s, err |-> ""]
Throw(e) == [ok |-> FALSE, str |-> << >>, err |-> e]

\* the exception of nsIStringBundle.GetStringFromName for an unknown name
MissingKey == "NS_ERROR_FAILURE"
\* a method call on null or undefined
TypeError == "TypeError"

NoQuantity == [given |-> FALSE, n |-> 0]
Quantity(n) == [given |-> TRUE, n |-> n]

NoPlural == [set |-> FALSE, rule |-> 0]
Getter(rule) == [set |-> TRUE, rule |-> rule]

\* variant: a name missing from both bundles gives the empty string
LookupStringSilent(b, fb, name) ==
    IF b.loaded /\ b.strings[name].has THEN Return(b.strings[name].tpl)
    ELSE IF ~fb.loaded THEN Return(<< >>)
    ELSE IF fb.strings[name].has THEN Return(fb.strings[name].tpl)
    ELSE Return(<< >>)

\* variant: the fallback bundle is asked before the primary bundle
LookupStringFallbackFirst(b, fb, name) ==
    IF fb.loaded /\ fb.strings[name].has THEN Return(fb.strings[name].tpl)
    ELSE IF b.loaded /\ b.strings[name].has THEN Return(b.strings[name].tpl)
    ELSE IF ~fb.loaded THEN Throw(TypeError)
    ELSE Throw(MissingKey)

\* variant: only the bundle's own exception is caught, not the TypeError
\* of a null primary bundle
LookupStringNullThrows(b, fb, name) ==
    IF ~b.loaded THEN Throw(TypeError)
    ELSE IF b.strings[name].has THEN Return(b.strings[name].tpl)
    ELSE IF ~fb.loaded THEN Throw(TypeError)
    ELSE IF fb.strings[name].has THEN Return(fb.strings[name].tpl)
    ELSE Throw(MissingKey)

\* the try/catch of lines 70-76: any failure on the primary bundle,
\* a null bundle included, goes to the fallback bundle
LookupString(b, fb, name) ==
    IF b.loaded /\ b.strings[name].has THEN Return(b.strings[name].tpl)
    ELSE IF ~fb.loaded THEN Throw(TypeError)
    ELSE IF fb.strings[name].has THEN Return(fb.strings[name].tpl)
    ELSE Throw(MissingKey)

\* variant: arguments filled in before the plural form is picked
PickAndFillArgsFirst(pl, str, args, q) ==
    IF q.given /\ ~pl.set THEN Throw(TypeError)
    ELSE Return(IF q.given THEN PluralGet(pl.rule, q.n, FillArgs(str, args))
                           ELSE FillArgs(str, args))

\* plural form first, arguments second
PickAndFill(pl, str, args, q) ==
    IF q.given /\ ~pl.set THEN Throw(TypeError)
    ELSE Return(FillArgs(IF q.given THEN PluralGet(pl.rule, q.n, str)
                                    ELSE str, args))

getString(b, fb, pl, name, args, q) ==
    LET found == LookupString(b, fb, name)
    IN  IF found.ok THEN PickAndFill(pl, found.str, args, q) ELSE found

---------------------------------------------------------------------------
(* getString.init(addon, getAlternate).                                    *)

\* variant: getAlternate ignored, en-US always the alternate
PrimaryBundleFixedAlternate(fs, locale, alternate) ==
    IF getBundle(fs, locale).loaded THEN getBundle(fs, locale)
    ELSE getBundle(fs, "en-US")

\* the primary bundle: the selected locale's, else the alternate's
PrimaryBundle(fs, locale, alternate) ==
    IF getBundle(fs, locale).loaded THEN getBundle(fs, locale)
    ELSE getBundle(fs, alternate)

FallbackBundle(fs) == getBundle(fs, "en-US")

\* the locales getBundle is called for, in order
Tried(fs, locale, alternate) ==
    IF getBundle(fs, locale).loaded THEN <<locale, "en-US">>
    ELSE <<locale, alternate, "en-US">>

\* let rule = getString("pluralRule")
RuleLookup(fs, locale, alternate) ==
    getString(PrimaryBundle(fs, locale, alternate), FallbackBundle(fs),
              NoPlural, "pluralRule", NullArgs, NoQuantity)

\* the outcome of init: the exception of the rule lookup or of makeGetter
InitResult(fs, locale, alternate) ==
    LET rule == RuleLookup(fs, locale, alternate)
    IN  IF ~rule.ok THEN rule
        ELSE IF ~MakeGetter(rule.str).ok THEN Throw(TypeError)
        ELSE Return(<< >>)

\* getString.plural after init: not assigned when init threw
PluralAfterInit(old, fs, locale, alternate) ==
    IF InitResult(fs, locale, alternate).ok
    THEN Getter(MakeGetter(RuleLookup(fs, locale, alternate).str).rule)
    ELSE old

\* the record of a call: its inputs, its outcome and, for init, the
\* locales getBundle was called for and the getter in place before it
NoCall ==
    [op |-> "none", name |-> "", args |-> NullArgs, plural |-> NoQuantity,
     locale |-> "", alternate |-> "", tried |-> << >>, before |-> NoPlural,
     res |-> Return(<< >>)]

CallInit(locale, alternate) ==
    /\ bundle' = PrimaryBundle(files, locale, alternate)
    /\ fallback' = FallbackBundle(files)
    /\ plural' = PluralAfterInit(plural, files, locale, alternate)
    /\ last' = [NoCall EXCEPT
                  !.op = "init", !.locale = locale, !.alternate = alternate,
                  !.tried = Tried(files, locale, alternate),
                  !.before = plural,
                  !.res = InitResult(files, locale, alternate)]
    /\ UNCHANGED files

\* variant: a string found in the fallback bundle is cached in the primary
CallGetStringCaching(name, args, q) ==
    /\ last' = [NoCall EXCEPT
                  !.op = "get", !.name = name, !.args = args, !.plural = q,
                  !.res = getString(bundle, fallback, plural, name, args, q)]
    /\ bundle' = IF bundle.loaded /\ ~bundle.strings[name].has
                    /\ fallback.loaded /\ fallback.strings[name].has
                 THEN [bundle EXCEPT !.strings[name] = fallback.strings[name]]
                 ELSE bundle
    /\ UNCHANGED <<files, fallback, plural>>

CallGetString(name, args, q) ==
    /\ last' = [NoCall EXCEPT
                  !.op = "get", !.name = name, !.args = args, !.plural = q,
                  !.res = getString(bundle, fallback, plural, name, args, q)]
    /\ UNCHANGED <<files, bundle, fallback, plural>>

---------------------------------------------------------------------------
(* The properties files of the add-on: the environment the calls run in.   *)

Bob == <<"B", "o", "b">>
FiveItems == <<"5", " ", "i", "t", "e", "m", "s">>

\* en-US as the add-on ships it
EnStrings ==
    [EmptyStrings EXCEPT
       !["pluralRule"] = Entry(<<"1">>),
       !["money"] = Entry(<<"o", "n", "e", " ", "i", "t", "e", "m", ";", "%", "s", " ", "i", "t", "e", "m", "s">>),
       !["hereHave"] = Entry(<<"H", "e", "r", "e", ",", " ", "h", "a", "v", "e", " ", "%", "s", " ", "a", "n", "d", " ", "%", "2", "$", "S">>),
       !["confirm"] = Entry(<<"%", "S", "?">>)]

\* en-US with the reserved key left empty
EnEmptyRuleStrings ==
    [EmptyStrings EXCEPT
       !["pluralRule"] = Entry(<< >>),
       !["money"] = Entry(<<"%", "s", " ", "i", "t", "e", "m", "s">>)]

\* en-US without the reserved key and with a single form of "money"
EnNoRuleStrings ==
    [EmptyStrings EXCEPT
       !["money"] = Entry(<<"%", "s", " ", "i", "t", "e", "m", "s">>),
       !["hereHave"] = Entry(<<"H", "e", "r", "e", ",", " ", "h", "a", "v", "e", " ", "%", "s", " ", "a", "n", "d", " ", "%", "2", "$", "S">>)]

\* a translation with fewer forms of "money" than its rule has indexes
\* and an empty second form of "confirm"
DeStrings ==
    [EmptyStrings EXCEPT
       !["pluralRule"] = Entry(<<"1">>),
       !["money"] = Entry(<<"%", "1", "$", "s", " ", "E", "u", "r", "o">>),
       !["confirm"] = Entry(<<"%", "S", "?", ";">>)]

\* a partial translation without the reserved key
DeNoRuleStrings ==
    [EmptyStrings EXCEPT
       !["hereHave"] = Entry(<<"%", "2", "$", "S", ":", " ", "%", "S">>)]

\* a translation whose first form of "money" is empty
FrStrings ==
    [EmptyStrings EXCEPT
       !["pluralRule"] = Entry(<<"2">>),
       !["money"] = Entry(<<";", "%", "s", " ", "s", "o", "u", "s">>),
       !["confirm"] = Entry(<<"%", "1", "$", "s", ";", "%", "s">>)]

\* a translation with a rule that is no number
FrBadRuleStrings ==
    [EmptyStrings EXCEPT
       !["pluralRule"] = Entry(<<"x">>),
       !["money"] = Entry(<<"%", "s", ";", "%", "s", " ", "s", "o", "u", "s">>)]

\* a translation whose pluralRule is left empty
DeEmptyRuleStrings ==
    [EmptyStrings EXCEPT
       !["pluralRule"] = Entry(<< >>),
       !["money"] = Entry(<<"%", "s", " ", "E", "u", "r", "o">>)]

\* a translation under a three-form rule
FrThreeFormStrings ==
    [EmptyStrings EXCEPT
       !["pluralRule"] = Entry(<<"7">>),
       !["money"] = Entry(<<"%", "s", " ", "s", "o", "u", ";", "%", "s", " ", "s", "o", "u", "s">>)]

FileSystems ==
    { [l \in Locales |-> CASE l = "en-US" -> en [] l = "de" -> de [] OTHER -> fr] :
        en \in {NoFile, File(EnStrings), File(EnNoRuleStrings),
                File(EnEmptyRuleStrings)},
        de \in {NoFile, File(DeStrings), File(DeNoRuleStrings),
                File(DeEmptyRuleStrings)},
        fr \in {NoFile, File(FrStrings), File(FrBadRuleStrings),
                File(FrThreeFormStrings)} }

\* the calls of the main specification
Quantities == {NoQuantity, Quantity(1), Quantity(MaxQuantity)}

ArgChoices ==
    {NullArgs, ScalarArgs(NumVal(MaxQuantity)),
     ArrayArgs(<<StrVal(Bob), StrVal(FiveItems)>>)}

---------------------------------------------------------------------------
(* The program: nothing is assigned before getString.init runs.            *)

Blank ==
    /\ bundle = NoBundle
    /\ fallback = NoBundle
    /\ plural = NoPlural
    /\ last = NoCall

Init ==
    /\ files \in FileSystems
    /\ Blank

Next ==
    \/ \E locale \in Locales, alternate \in Locales :
           CallInit(locale, alternate)
    \/ \E name \in Names, args \in ArgChoices, q \in Quantities :
           CallGetString(name, args, q)

Spec == Init /\ [][Next]_vars

---------------------------------------------------------------------------
(* Properties of lookup and initialization, checked under Spec.            *)

InBundle(b, name) == b.loaded /\ b.strings[name].has

BundleOf(locale) ==
    IF files[locale].exists
    THEN [loaded |-> TRUE, locale |-> locale,
          strings |-> files[locale].strings]
    ELSE NoBundle

\* C1: a getString call for a name that neither the primary nor the
\* fallback bundle holds throws, whatever args and plural are, and returns
\* no string: the bundle's missing-key exception when the fallback bundle
\* exists, a TypeError when there is no fallback bundle to ask.
C1_MissingKeyFails ==
    (last.op = "get" /\ ~InBundle(bundle, last.name)
                     /\ ~InBundle(fallback, last.name))
        => /\ ~last.res.ok
           /\ last.res.str = << >>
           /\ last.res.err = IF fallback.loaded THEN MissingKey ELSE TypeError

C1_Witness ==
    /\ last.op = "get"
    /\ bundle.loaded /\ fallback.loaded /\ plural.set
    /\ ~InBundle(bundle, last.name) /\ ~InBundle(fallback, last.name)
    /\ last.args.kind = "array" /\ last.plural.given
    /\ last.res.err = MissingKey

\* C2: without args and plural, getString returns the primary bundle's
\* template for a name the primary bundle holds, and the fallback bundle's
\* template, unmodified, for a name only the fallback bundle holds.
C2_FallbackTemplate ==
    (last.op = "get" /\ last.args.kind = "null" /\ ~last.plural.given)
        => /\ InBundle(bundle, last.name)
                => last.res = Return(bundle.strings[last.name].tpl)
           /\ (~InBundle(bundle, last.name) /\ InBundle(fallback, last.name))
                => last.res = Return(fallback.strings[last.name].tpl)

C2_Witness ==
    /\ last.op = "get" /\ last.args.kind = "null" /\ ~last.plural.given
    /\ bundle.loaded /\ bundle.locale # fallback.locale
    /\ ~InBundle(bundle, last.name) /\ InBundle(fallback, last.name)
    /\ last.res.ok /\ Len(last.res.str) > 1

\* the value getString("pluralRule") reads from the two bundles b and fb
RuleFound(b, fb) == InBundle(b, "pluralRule") \/ InBundle(fb, "pluralRule")

RuleString(b, fb) ==
    IF InBundle(b, "pluralRule") THEN b.strings["pluralRule"].tpl
    ELSE fb.strings["pluralRule"].tpl

\* the rule numbers of the registry as pluralRule writes them, "0" to "15"
RuleNames == {NumToString(r) : r \in 0..(RuleCount - 1)}
RuleNamed(str) == CHOOSE r \in 0..(RuleCount - 1) : NumToString(r) = str

\* the values of pluralRule that are no number at all, read as rule 0
NoNumber == {<<"x">>}

\* what init did with the value of pluralRule: a getter of the rule it
\* names, of rule 0 for a value that is no number, and a TypeError that
\* leaves the getter alone for an empty value
RuleApplied(str) ==
    /\ str \in RuleNames
         => (last.res.ok /\ plural = Getter(RuleNamed(str)))
    /\ str \in NoNumber
         => (last.res.ok /\ plural = Getter(0))
    /\ str = << >>
         => (~last.res.ok /\ last.res.err = TypeError
               /\ plural = last.before)

\* C3 as claimed: init throws whenever neither the selected locale nor the
\* alternate can be loaded, whatever the state of en-US.
C3_AsClaimed ==
    (last.op = "init" /\ ~files[last.locale].exists
                      /\ ~files[last.alternate].exists)
        => ~last.res.ok

\* C3: when neither the selected locale nor the alternate can be loaded,
\* init leaves no primary bundle and loads the fallback bundle all the
\* same; it throws when en-US cannot be loaded either (a TypeError), when
\* en-US does not define pluralRule (the bundle's exception) and when
\* makeGetter throws on the value en-US gives, as for an empty one; with a
\* rule number under pluralRule of en-US it completes.
C3_InitWithoutPrimary ==
    (last.op = "init" /\ ~files[last.locale].exists
                      /\ ~files[last.alternate].exists)
        => /\ bundle = NoBundle
           /\ fallback = BundleOf("en-US")
           /\ ~files["en-US"].exists
                => (~last.res.ok /\ last.res.err = TypeError
                      /\ plural = last.before)
           /\ (files["en-US"].exists
                 /\ ~files["en-US"].strings["pluralRule"].has)
                => (~last.res.ok /\ last.res.err = MissingKey
                      /\ plural = last.before)
           /\ (files["en-US"].exists
                 /\ files["en-US"].strings["pluralRule"].has)
                => RuleApplied(files["en-US"].strings["pluralRule"].tpl)

C3_Witness ==
    /\ last.op = "init"
    /\ ~files[last.locale].exists /\ ~files[last.alternate].exists
    /\ ~files["en-US"].exists
    /\ ~last.res.ok

\* C4 as claimed: init completes whenever the alternate can be loaded.
C4_AsClaimed ==
    (last.op = "init" /\ ~files[last.locale].exists
                      /\ files[last.alternate].exists)
        => (last.res.ok /\ bundle = BundleOf(last.alternate))

\* C4: init makes the selected locale's bundle the primary when it loads,
\* without asking for the alternate, and the alternate's bundle otherwise;
\* the fallback is loaded from en-US in both cases and no other locale is
\* tried.  Whether init then completes is decided by pluralRule: it throws
\* when neither bundle holds the key, and when makeGetter throws on the
\* value read, as for an empty one; it completes for a rule number and for
\* a value that is no number.
C4_PrimarySelection ==
    last.op = "init"
        => /\ files[last.locale].exists
                => (bundle = BundleOf(last.locale)
                      /\ last.tried = <<last.locale, "en-US">>)
           /\ ~files[last.locale].exists
                => (bundle = BundleOf(last.alternate)
                      /\ last.tried = <<last.locale, last.alternate, "en-US">>)
           /\ fallback = BundleOf("en-US")
           /\ ~RuleFound(bundle, fallback)
                => /\ ~last.res.ok
                   /\ last.res.err = IF fallback.loaded THEN MissingKey
                                                        ELSE TypeError
                   /\ plural = last.before
           /\ RuleFound(bundle, fallback)
                => RuleApplied(RuleString(bundle, fallback))

C4_Witness ==
    /\ last.op = "init"
    /\ ~files[last.locale].exists /\ files[last.alternate].exists
    /\ last.alternate # "en-US" /\ files["en-US"].exists
    /\ bundle.locale = last.alternate /\ fallback.locale = "en-US"
    /\ last.res.ok

\* a getString call leaves the two bundles and the plural getter as they
\* are, only init changes them, and a call repeated with the same inputs
\* gives the same result
GetsReadOnly ==
    /\ last'.op = "get" => UNCHANGED <<bundle, fallback, plural>>
    /\ <<bundle, fallback, plural>>' # <<bundle, fallback, plural>>
         => last'.op = "init"
    /\ (last.op = "get" /\ last'.op = "get" /\ last'.name = last.name
          /\ last'.args = last.args /\ last'.plural = last.plural)
         => last'.res = last.res

\* init has assigned the two bundles from the files of this initialization
TablesOverwritten ==
    /\ bundle' = IF files[last'.locale].exists THEN BundleOf(last'.locale)
                 ELSE BundleOf(last'.alternate)
    /\ fallback' = BundleOf("en-US")

\* init has assigned the getter of the rule its new bundles name
GetterOverwritten ==
    /\ RuleFound(bundle', fallback')
    /\ plural' = Getter(IF RuleString(bundle', fallback') \in RuleNames
                        THEN RuleNamed(RuleString(bundle', fallback'))
                        ELSE 0)

\* C10 as claimed: getString calls change nothing, and an init that
\* follows a completed one overwrites the two bundles and the getter with
\* those of the new initialization.
C10_AsClaimed ==
    [][ /\ GetsReadOnly
        /\ (last'.op = "init" /\ plural.set)
             => (TablesOverwritten /\ GetterOverwritten) ]_vars

\* C10: getString calls change nothing and only init does; every init
\* overwrites the two bundles; it overwrites the getter when it completes,
\* and leaves the getter of the earlier initialization in place beside the
\* new bundles when it throws.
C10_OnlyInitWrites ==
    [][ /\ GetsReadOnly
        /\ last'.op = "init"
             => /\ TablesOverwritten
                /\ last'.res.ok => GetterOverwritten
                /\ ~last'.res.ok => plural' = plural ]_vars

\* an init that follows a completed one and replaces its getter
C10_Witness ==
    /\ last.op = "init" /\ last.res.ok
    /\ last.before.set /\ plural.set /\ last.before # plural
    /\ bundle.loaded /\ fallback.loaded /\ bundle.locale # "en-US"

---------------------------------------------------------------------------
(* startup: getString.init, then formatted calls.  Two specifications run  *)
(* the call that follows an init over wider inputs than Spec does: one     *)
(* over quantities and plural templates, one over generated templates and  *)
(* argument lists.                                                         *)

PluralQuantities == {NoQuantity} \cup {Quantity(n) : n \in 0..MaxQuantity}

PluralArgs ==
    {NullArgs, ScalarArgs(StrVal(<<"a", ";", "b">>)),
     ScalarArgs(StrVal(<<"$", Backtick>>)),
     ScalarArgs(StrVal(<<"$", Apostrophe>>))}
        \cup {ScalarArgs(NumVal(n)) : n \in 0..MaxQuantity}

NextPlural ==
    \/ \E locale \in Locales, alternate \in Locales :
           CallInit(locale, alternate)
    \/ /\ last.op = "init"
       /\ \E name \in {"money", "confirm"}, args \in PluralArgs,
             q \in PluralQuantities :
               CallGetString(name, args, q)

SpecPlural == Init /\ [][NextPlural]_vars

\* pieces the generated templates are concatenated from
Pieces ==
    {<<"a">>, <<"%", "s">>, <<"%", "S">>, <<"%", "1", "$", "s">>,
     <<"%", "2", "$", "S">>, <<"%">>, <<"s">>, <<"$", "S">>}

RECURSIVE Concats(_)
Concats(n) ==
    IF n = 0 THEN {<< >>}
    ELSE Concats(n - 1) \cup {t \o p : t \in Concats(n - 1), p \in Pieces}

HereHave == <<"H", "e", "r", "e", ",", " ", "h", "a", "v", "e", " ", "%", "s", " ", "a", "n", "d", " ", "%", "2", "$", "S">>

SubstTemplates == Concats(MaxPieces) \cup {HereHave}

SubstFileSystems ==
    { [l \in Locales |->
         IF l = "en-US"
         THEN File([EmptyStrings EXCEPT !["pluralRule"] = Entry(<<"1">>),
                                        !["hereHave"] = Entry(t)])
         ELSE NoFile] : t \in SubstTemplates }

ArgValues == {StrVal(Bob), NumVal(1), StrVal(<<"%", "2", "$", "S">>), StrVal(<<"$", "&">>)}

SubstArgs ==
    {NullArgs} \cup {ScalarArgs(v) : v \in ArgValues}
        \cup {ArrayArgs(a) : a \in UNION {[1..n -> ArgValues] : n \in 0..MaxArgs}}

InitSubst ==
    /\ files \in SubstFileSystems
    /\ Blank

\* getString.init(addon) in an en-US application, with the default
\* getAlternate, once
NextSubst ==
    \/ /\ last.op = "none"
       /\ CallInit("en-US", "en-US")
    \/ /\ last.op = "init"
       /\ \E args \in SubstArgs : CallGetString("hereHave", args, NoQuantity)

SpecSubst == InitSubst /\ [][NextSubst]_vars

---------------------------------------------------------------------------
(* Properties of plural selection, checked under SpecPlural.               *)

\* the template getString resolves for the name of the last call
Resolved ==
    IF InBundle(bundle, last.name) THEN bundle.strings[last.name].tpl
    ELSE fallback.strings[last.name].tpl

Found == InBundle(bundle, last.name) \/ InBundle(fallback, last.name)

FormIndex == PluralFunc(plural.rule, last.plural.n)

HasForm(str, index) ==
    index < Len(Words(str)) /\ Words(str)[index + 1] # << >>

PluralCall == last.op = "get" /\ last.plural.given /\ plural.set /\ Found

OneItemForms == <<"o", "n", "e", " ", "i", "t", "e", "m", ";", "%", "s", " ", "i", "t", "e", "m", "s">>

\* the examples of C7: rule 1 and "one item;%s items"
C7_Examples ==
    (Resolved = OneItemForms /\ plural.rule = 1)
        => /\ (last.plural = Quantity(5) /\ last.args = ScalarArgs(NumVal(5)))
                => last.res = Return(<<"5", " ", "i", "t", "e", "m", "s">>)
           /\ (last.plural = Quantity(1) /\ last.args = ScalarArgs(NumVal(1)))
                => last.res = Return(<<"o", "n", "e", " ", "i", "t", "e", "m">>)

PluralFormOutOfRange == "PluralFormOutOfRange"

---------------------------------------------------------------------------
(* Properties of argument substitution, checked under SpecSubst.           *)

Array == ToArray(last.args)

IsDigit(c) == \E d \in 1..9 : DigitChars[d + 1] = c
DigitValue(c) == CHOOSE d \in 1..9 : DigitChars[d + 1] = c

BareAt(str, i) ==
    str[i] = "%" /\ i + 1 <= Len(str) /\ str[i + 1] \in {"s", "S"}

PositionalAt(str, i) ==
    /\ str[i] = "%" /\ i + 3 <= Len(str)
    /\ IsDigit(str[i + 1]) /\ str[i + 2] = "$" /\ str[i + 3] \in {"s", "S"}

\* every placeholder of the template replaced at once by its argument,
\* the arguments inserted as they are: %s by args[0], which is undefined
\* for an empty args, and %N$S by args[N-1], staying when N is beyond args
RECURSIVE Simultaneous(_, _, _)
Simultaneous(str, i, args) ==
    IF i > Len(str) THEN << >>
    ELSE IF BareAt(str, i)
    THEN ToString(FirstArg(args)) \o Simultaneous(str, i + 2, args)
    ELSE IF PositionalAt(str, i) /\ DigitValue(str[i + 1]) <= Len(args)
    THEN ToString(args[DigitValue(str[i + 1])])
             \o Simultaneous(str, i + 4, args)
    ELSE <<str[i]>> \o Simultaneous(str, i + 1, args)

\* every "%" of the template starts a placeholder
Unambiguous(str) ==
    \A i \in 1..Len(str) :
        str[i] = "%" => (BareAt(str, i) \/ PositionalAt(str, i))

\* no argument holds a "%" or a "$"
PlainArgs(args) ==
    \A k \in 1..Len(args) :
        \A j \in 1..Len(ToString(args[k])) :
            ToString(args[k])[j] \notin {"%", "$"}

Occurs(sub, str) ==
    \E i \in 1..Len(str) :
        i + Len(sub) - 1 <= Len(str) /\ SubSeq(str, i, i + Len(sub) - 1) = sub

SubstCall == last.op = "get" /\ last.args.kind # "null" /\ Found

\* C5 as claimed: for any non-empty args, the result is the template with
\* each %s replaced by args[0] and each %N$S by args[N-1].
C5_AsClaimed ==
    (SubstCall /\ Len(Array) > 0)
        => last.res = Return(Simultaneous(Resolved, 1, Array))

\* C5: for non-empty args none of which holds "%" or "$", and a template in
\* which every "%" starts a placeholder, the result is the template with
\* each %s or %S replaced by args[0] and each %N$S or %N$s, N <= length of
\* args, by args[N-1]; "Here, have %s and %2$S" with [Bob, 1] gives
\* "Here, have Bob and 1".
C5_PlaceholdersFilled ==
    (SubstCall /\ Len(Array) > 0)
        => /\ (Unambiguous(Resolved) /\ PlainArgs(Array))
                => last.res = Return(Simultaneous(Resolved, 1, Array))
           /\ (Resolved = HereHave
                 /\ last.args = ArrayArgs(<<StrVal(Bob), NumVal(1)>>))
                => last.res = Return(<<"H", "e", "r", "e", ",", " ", "h", "a", "v", "e", " ", "B", "o", "b", " ", "a", "n", "d", " ", "1">>)

C5_Witness ==
    /\ SubstCall
    /\ Resolved = HereHave
    /\ last.args = ArrayArgs(<<StrVal(Bob), NumVal(1)>>)
    /\ last.res = Return(<<"H", "e", "r", "e", ",", " ", "h", "a", "v", "e", " ", "B", "o", "b", " ", "a", "n", "d", " ", "1">>)

\* C6 as claimed: with args given, the call returns and every placeholder
\* whose argument position is beyond args (%s or %S when args is empty,
\* %N$S with N above the length of args) is in the result as it was.
C6_UnresolvedKept ==
    SubstCall
        => /\ last.res.ok
           /\ \A i \in 1..Len(Resolved) :
                /\ (BareAt(Resolved, i) /\ Len(Array) = 0)
                     => Occurs(SubSeq(Resolved, i, i + 1), last.res.str)
                /\ (PositionalAt(Resolved, i)
                      /\ DigitValue(Resolved[i + 1]) > Len(Array))
                     => Occurs(SubSeq(Resolved, i, i + 3), last.res.str)

\* the half of C6 the code keeps: a %N$S with N above the length of args
\* stays in the result and the call returns
C6_PositionalKept ==
    SubstCall
        => /\ last.res.ok
           /\ \A i \in 1..Len(Resolved) :
                (PositionalAt(Resolved, i)
                   /\ DigitValue(Resolved[i + 1]) > Len(Array))
                  => Occurs(SubSeq(Resolved, i, i + 3), last.res.str)

\* what the code does with %s and an empty args: inserts "undefined"
C6_BareWithoutArgs ==
    (SubstCall /\ Len(Array) = 0)
        => last.res = Return(Simultaneous(Resolved, 1, << >>))

\* C9 as claimed: for any template and args the result is the same with
\* the positional pass run first, and the same as replacing at once.
C9_AsClaimed ==
    SubstCall
        => /\ last.res.str = ReplaceBare(ReplacePositional(Resolved, Array),
                                         Array)
           /\ last.res.str = Simultaneous(Resolved, 1, Array)

\* C9: when no argument holds "%" or "$" and every "%" of the template
\* starts a placeholder, the result of the code's order (bare pass, then
\* positional pass) equals that of the positional pass followed by the
\* bare pass, and that of replacing every placeholder at once.
C9_PassesCommute ==
    (SubstCall /\ Unambiguous(Resolved) /\ PlainArgs(Array))
        => /\ last.res.ok
           /\ last.res.str = ReplaceBare(ReplacePositional(Resolved, Array),
                                         Array)
           /\ last.res.str = Simultaneous(Resolved, 1, Array)

C9_Witness ==
    /\ SubstCall /\ Unambiguous(Resolved) /\ PlainArgs(Array)
    /\ Len(Array) = 2
    /\ \E i \in 1..Len(Resolved) : BareAt(Resolved, i)
    /\ \E i \in 1..Len(Resolved) :
           PositionalAt(Resolved, i) /\ Resolved[i + 1] = "2"
    /\ last.res.ok /\ ~Occurs(<<"%">>, last.res.str)

====
